---------------------------- MODULE Spec2Model ----------------------------
(***************************************************************************)
(* Fresnel wavefront of poppy/fresnel.py: the Gaussian-beam bookkeeping,   *)
(* the three propagation kernels (ptp, wts, stw), the regime dispatch      *)
(* propagate_fresnel and the thin-lens interaction apply_optic.            *)
(*                                                                         *)
(* Numbers.  Every quantity of the file is a real number; the model        *)
(* computes with exact rationals <<num, den>> (den > 0, lowest terms),     *)
(* extended by <<1,0>> = +inf, <<-1,0>> = -inf and <<0,0>> = nan, which is *)
(* what numpy yields for 1.0/0 and 1.0/inf.                                *)
(*                                                                         *)
(* Units.  Axial lengths (z, z_w0, dz, z_lens, focal lengths) are counted  *)
(* in half angstroms, so that one angstrom is 2 and a distance of 1 is a   *)
(* nonzero sub-angstrom distance.  The waist radius enters the file only   *)
(* through w_0**2 (z_R, spot_radius, the lens formulas, all of which are   *)
(* rational in w_0**2) and through equality of waists; the model carries   *)
(* w_0sq = w_0**2 in the transverse unit that makes pi/wavelength = 1, so  *)
(* z_R = pi*w_0**2/wavelength reads w_0sq.  The pixel scale is carried in  *)
(* the transverse unit that makes wavelength = 1 in                        *)
(* wavelength*|dz|/(n*pixelscale); pixelscale and w_0 never meet.          *)
(*                                                                         *)
(* Field.  The complex field array is carried as the word of the linear    *)
(* operators applied to the initial field, reduced by the identities of    *)
(* those operators (inverse FFT undoes FFT, multiplying by the phase of    *)
(* curvature -a on the same grid undoes the phase of curvature a, rolls    *)
(* of the sample index add modulo the grid size).  Two equal words are     *)
(* equal fields.                                                           *)
(***************************************************************************)
EXTENDS Integers, Sequences, FiniteSets, TLC

\* ------------------------------------------------------------------ bounds
\* Public calls made on one wavefront.
MaxCalls == 3
\* apply_optic is explored from beam parameters whose numerators and
\* denominators do not exceed this (keeps the exact arithmetic in range).
MaxMagnitude == 8

\* ------------------------------------------------------------ exact numbers
RAbsInt(i) == IF i < 0 THEN -i ELSE i

RECURSIVE RGcd(_, _)
RGcd(a, b) == IF b = 0 THEN a ELSE RGcd(b, a % b)

RSign(i) == IF i > 0 THEN 1 ELSE IF i < 0 THEN -1 ELSE 0

\* lowest terms, positive denominator; a zero denominator is +-inf or nan
RNorm(num, den) ==
    IF den = 0 THEN <<RSign(num), 0>>
    ELSE LET g == RGcd(RAbsInt(num), RAbsInt(den))
             s == IF den < 0 THEN -1 ELSE 1
         IN  <<(s * num) \div g, (s * den) \div g>>

Rat(i) == <<i, 1>>
Zero == <<0, 1>>
One == <<1, 1>>
Inf == <<1, 0>>

IsFinite(a) == a[2] # 0

RNeg(a) == <<-a[1], a[2]>>
RAbs(a) == <<RAbsInt(a[1]), a[2]>>
RAdd(a, b) ==
    IF a[2] = 0 /\ b[2] = 0
    THEN (IF a[1] = b[1] THEN a ELSE <<0, 0>>)
    ELSE LET g == RGcd(a[2], b[2])
             l == IF g = 0 THEN 1 ELSE g
         IN  RNorm(a[1] * (b[2] \div l) + b[1] * (a[2] \div l),
                   (a[2] \div l) * b[2])
RSub(a, b) == RAdd(a, RNeg(b))
RMul(a, b) ==
    LET x == RNorm(a[1], b[2])
        y == RNorm(b[1], a[2])
    IN  IF a[2] = 0 \/ b[2] = 0
        THEN <<RSign(a[1]) * RSign(b[1]), 0>>
        ELSE RNorm(x[1] * y[1], x[2] * y[2])
\* 1.0/a as numpy computes it: 1/0 = inf, 1/inf = 0
RRecip(a) == RNorm(a[2], a[1])
RDiv(a, b) == RMul(a, RRecip(b))
RSq(a) == RMul(a, a)
RLt(a, b) == a[1] * b[2] < b[1] * a[2]
RGt(a, b) == RLt(b, a)

\* ---------------------------------------------------------------- constants
\* 1*u.Angstrom, in half angstroms
Angstrom == 2
\* rayl_factor, the constructor's default
rayl_factor == 2

_PUPIL == "pupil"
_IMAGE == "image"
_INTERMED == "intermediate"


\* -------------------------------------------------------------------- state
VARIABLES
    z,            \* self.z: current axial position
    z_w0,         \* self.z_w0: axial position of the latest waist
    w_0sq,        \* self.w_0 ** 2 (see Units)
    spherical,    \* self.spherical
    pixelscale,   \* self.pixelscale
    wavefront,    \* self.wavefront: the field, as a reduced operator word
    history,      \* self.history: the log of operations
    waists_z,     \* self.waists_z
    waists_w0,    \* self.waists_w0 (squared, as w_0sq)
    planetype,    \* self.planetype
    n,            \* self.n: linear grid size
    oversample,   \* self.oversample
    force_fresnel,\* self.force_fresnel
    op,           \* the last call made on the wavefront and its arguments
    invoked,      \* the kernels the last call invoked, in order, with arguments
    zerodiv,      \* the places where the last call took 1.0/x with x exactly 0
    raised,       \* the exception the last call ended with, or "none"
    before,       \* the wavefront as it was when the last call was made
    calls         \* number of calls made so far

vars == <<z, z_w0, w_0sq, spherical, pixelscale, wavefront, history, waists_z,
          waists_w0, planetype, n, oversample, force_fresnel, op, invoked,
          zerodiv, raised, before, calls>>

\* The wavefront object as one record: the methods below map records to records.
Self ==
    [z |-> z, z_w0 |-> z_w0, w_0sq |-> w_0sq, spherical |-> spherical,
     pixelscale |-> pixelscale, wavefront |-> wavefront, history |-> history,
     waists_z |-> waists_z, waists_w0 |-> waists_w0, planetype |-> planetype,
     n |-> n, oversample |-> oversample, force_fresnel |-> force_fresnel,
     invoked |-> <<>>, zerodiv |-> {}, raised |-> "none"]

\* -------------------------------------------------------------------- field
\* One operator applied to the field: kind k, a length a, the pixel scale p
\* of the grid the operator was evaluated on (Zero where it plays no part).
Tok(k, a, p) == [k |-> k, a |-> a, p |-> p]

\* True when applying t right after l is the identity on every field.
Cancels(l, t) ==
    \/ l.k = "fft" /\ t.k = "ifft"
    \/ l.k = "ifft" /\ t.k = "fft"
    \/ l.k = "phase" /\ t.k = "phase" /\ l.p = t.p /\ IsFinite(l.a)
         /\ l.a # Zero /\ t.a = RNeg(l.a)
    \/ l.k = "transfer" /\ t.k = "transfer" /\ t.a = RNeg(l.a)

\* Apply one more operator to the field w.
Apply(w, t) ==
    IF w # <<>> /\ Cancels(w[Len(w)], t)
    THEN SubSeq(w, 1, Len(w) - 1)
    ELSE IF w # <<>> /\ w[Len(w)].k = "roll" /\ t.k = "roll"
    THEN LET k == (w[Len(w)].a[1] + t.a[1]) % w[Len(w)].p[1]
         IN  IF k = 0 THEN SubSeq(w, 1, Len(w) - 1)
             ELSE SubSeq(w, 1, Len(w) - 1) \o <<Tok("roll", Rat(k), t.p)>>
    ELSE Append(w, t)

\* self.fft(): normalized forward 2D FFT
fft(s) == [s EXCEPT !.wavefront = Apply(@, Tok("fft", Zero, Zero))]

\* self.inv_fft(): normalized inverse 2D FFT
inv_fft(s) == [s EXCEPT !.wavefront = Apply(@, Tok("ifft", Zero, Zero))]

\* self *= QuadPhase(zq, ...): multiply the field by exp(i k r^2 / (2 zq)),
\* r taken from the wavefront's coordinates at its current pixel scale.
MulQuadPhase(s, zq) ==
    [s EXCEPT !.wavefront = Apply(@, Tok("phase", zq, s.pixelscale))]

\* np.fft.fftshift(self.wavefront): roll every axis by n // 2 samples
fftshift(s) ==
    [s EXCEPT !.wavefront = Apply(@, Tok("roll", Rat(s.n \div 2), Rat(s.n)))]

\* One line of self.history
Entry(msg, dz) == [msg |-> msg, dz |-> dz]

\* One kernel invocation, as the dispatch makes it
Call(name, dz) == [name |-> name, dz |-> dz]

\* ------------------------------------------------------------------ kernels
\* z_R = pi * w_0**2 / wavelen_m
z_R(s) == s.w_0sq

\* ptp that also skips a distance of exactly one angstrom
ptp_skip_le(s, dz) ==
    LET s0 == [s EXCEPT !.invoked = Append(@, Call("ptp", dz))]
    IN  IF ~RGt(RAbs(dz), Rat(Angstrom))
        THEN s0
        ELSE LET s3 == inv_fft([fft(s0) EXCEPT !.wavefront =
                            Apply(@, Tok("transfer", dz, Zero))])
             IN  [s3 EXCEPT !.z = RAdd(@, dz),
                            !.history = Append(@,
                                Entry("Propagated Plane-to-Plane", dz))]

\* ptp(dz): plane-to-plane; skipped below one angstrom
ptp(s, dz) ==
    LET s0 == [s EXCEPT !.invoked = Append(@, Call("ptp", dz))]
    IN  IF RLt(RAbs(dz), Rat(Angstrom))
        THEN s0
        ELSE LET s1 == fft(s0)
                 s2 == [s1 EXCEPT !.wavefront =
                            Apply(@, Tok("transfer", dz, Zero))]
                 s3 == inv_fft(s2)
             IN  [s3 EXCEPT !.z = RAdd(@, dz),
                            !.history = Append(@,
                                Entry("Propagated Plane-to-Plane", dz))]

\* the Fourier-domain pixel scale: wavelength*|dz| / (n*pixelscale)
NewPixelscale(s, dz) == RDiv(RAbs(dz), RMul(Rat(s.n), s.pixelscale))

\* wts without the zero-distance return
wts_nocheck(s, dz) ==
    LET s0 == [s EXCEPT !.invoked = Append(@, Call("wts", dz))]
        s1 == MulQuadPhase(s0, dz)
        s2 == IF RGt(dz, Zero) THEN fft(s1) ELSE inv_fft(s1)
    IN  [s2 EXCEPT !.pixelscale = NewPixelscale(s2, dz),
                   !.z = RAdd(@, dz),
                   !.history = Append(@,
                       Entry("Propagated Waist to Spherical", dz))]

\* wts(dz): waist-to-spherical
wts(s, dz) ==
    LET s0 == [s EXCEPT !.invoked = Append(@, Call("wts", dz))]
    IN  IF dz = Zero
        THEN s0
        ELSE LET s1 == MulQuadPhase(s0, dz)
                 s2 == IF RGt(dz, Zero) THEN fft(s1) ELSE inv_fft(s1)
             IN  [s2 EXCEPT !.pixelscale = NewPixelscale(s2, dz),
                            !.z = RAdd(@, dz),
                            !.history = Append(@,
                                Entry("Propagated Waist to Spherical", dz))]

\* stw that applies the curvature before it updates the pixel scale
stw_phase_first(s, dz) ==
    LET s0 == [s EXCEPT !.invoked = Append(@, Call("stw", dz))]
    IN  IF dz = Zero
        THEN s0
        ELSE LET s1 == IF RGt(dz, Zero) THEN fft(s0) ELSE inv_fft(s0)
                 s2 == MulQuadPhase(s1, dz)
             IN  [s2 EXCEPT !.pixelscale = NewPixelscale(s2, dz),
                            !.z = RAdd(@, dz),
                            !.history = Append(@,
                                Entry("Propagated Spherical to Waist", dz))]

\* stw(dz): spherical-to-waist
stw(s, dz) ==
    LET s0 == [s EXCEPT !.invoked = Append(@, Call("stw", dz))]
    IN  IF dz = Zero
        THEN s0
        ELSE LET s1 == IF RGt(dz, Zero) THEN fft(s0) ELSE inv_fft(s0)
                 s2 == [s1 EXCEPT !.pixelscale = NewPixelscale(s1, dz)]
                 s3 == MulQuadPhase(s2, dz)
             IN  [s3 EXCEPT !.z = RAdd(@, dz),
                            !.history = Append(@,
                                Entry("Propagated Spherical to Waist", dz))]

\* planar_range with the boundary counted as inside
planar_range_le(s, zt) == ~RGt(RAbs(RSub(s.z_w0, zt)), z_R(s))

\* planar_range(zt): is zt within the Rayleigh range of the waist
planar_range(s, zt) == RLt(RAbs(RSub(s.z_w0, zt)), z_R(s))

\* propagate_fresnel that never looks at the spherical flag
propagate_fresnel_planar_only(s, delta_z) ==
    LET zt == RAdd(s.z, delta_z)
        s0 == fftshift(s)
        s1 == IF planar_range(s0, zt)
              THEN ptp(s0, delta_z)
              ELSE LET a == ptp(s0, RSub(s0.z_w0, s0.z))
                   IN  wts(a, RSub(zt, a.z_w0))
    IN  [fftshift(s1) EXCEPT !.planetype = _INTERMED]

\* propagate_fresnel(delta_z): regime dispatch
propagate_fresnel(s, delta_z) ==
    LET zt == RAdd(s.z, delta_z)
        s0 == fftshift(s)
        s1 == IF ~s0.spherical
              THEN IF planar_range(s0, zt)
                   THEN ptp(s0, delta_z)
                   ELSE LET a == ptp(s0, RSub(s0.z_w0, s0.z))
                        IN  wts(a, RSub(zt, a.z_w0))
              ELSE IF planar_range(s0, zt)
                   THEN LET a == stw(s0, RSub(s0.z_w0, s0.z))
                        IN  ptp(a, RSub(zt, a.z_w0))
                   ELSE LET a == stw(s0, RSub(s0.z_w0, s0.z))
                        IN  wts(a, RSub(zt, a.z_w0))
        s2 == fftshift(s1)
    IN  [s2 EXCEPT !.planetype = _INTERMED]

\* -------------------------------------------------------------- apply_optic
\* R_c(zt): radius of curvature of the Gaussian beam at zt; inf at the waist
R_c(s, zt) ==
    LET dz == RSub(zt, s.z_w0)
    IN  IF dz = Zero THEN Inf
        ELSE RMul(dz, RAdd(One, RSq(RDiv(z_R(s), dz))))

\* spot_radius(zt) ** 2 = w_0**2 * (1 + ((zt - z_w0)/z_R)**2)
spot_radius_sq(s, zt) ==
    RMul(s.w_0sq, RAdd(One, RSq(RDiv(RSub(zt, s.z_w0), z_R(s)))))

\* An optic (GaussianLens): focal length fl, plane type, oversample
Optic(fl, pt, os) == [fl |-> fl, planetype |-> pt, oversample |-> os]

\* self.propagateTo(optic) of the base class: ordinary (Fraunhofer)
\* propagation to the optic's plane; nothing to do when the wavefront is
\* already at a plane of that type.
propagateTo(s, optic) ==
    LET s0 == [s EXCEPT !.invoked = Append(@, Call("propagateTo", Zero))]
    IN  IF s.planetype = optic.planetype
        THEN s0
        ELSE [s0 EXCEPT
                !.wavefront = Apply(@, Tok("fraunhofer", Zero, s.pixelscale)),
                !.planetype = optic.planetype,
                !.history = Append(@, Entry("Propagated to plane", Zero))]

\* The zero denominators among the reciprocals 1.0/d taken at one place
ZeroDen(label, d) == IF d = Zero THEN {label} ELSE {}

\* Lines 660-693: the effective focal length z_eff of the phase mask, by
\* sub-case.  s carries the beam parameters as updated by the lens and the
\* spherical flag as set by the classification; R_input_beam is the input
\* radius of curvature.  bound tells whether any sub-case assigned z_eff.
z_eff_case(s, optic, zl, R_input_beam) ==
    LET dist  == RAbs(RSub(s.z_w0, zl))
        back  == RSub(s.z, s.z_w0)
        ifl   == RRecip(optic.fl)
        none  == [bound |-> FALSE, z_eff |-> Zero, spherical |-> s.spherical,
                  zerodiv |-> {}, case |-> "none"]
    IN  IF ~s.spherical /\ RLt(dist, z_R(s))
        THEN [none EXCEPT !.bound = TRUE, !.z_eff = optic.fl,
                          !.case = "planar inside"]
        ELSE IF ~s.spherical /\ RGt(dist, z_R(s))
        THEN LET sum == RAdd(ifl, RRecip(back))
             IN  [none EXCEPT !.bound = TRUE, !.z_eff = RRecip(sum),
                              !.spherical = TRUE,
                              !.zerodiv = ZeroDen("z - z_w0", back)
                                          \cup ZeroDen("curvature sum", sum),
                              !.case = "planar outside"]
        ELSE IF s.spherical /\ RGt(dist, z_R(s))
        THEN LET logged == ZeroDen("R_input_beam", R_input_beam)
                           \cup ZeroDen("z - z_w0", back)
                 sum1 == RSub(ifl, RRecip(R_input_beam))
                 sum2 == RAdd(ifl, RRecip(back))
                 sum3 == RSub(RAdd(ifl, RRecip(back)), RRecip(R_input_beam))
                 zd1  == IF R_input_beam = Zero
                         THEN ZeroDen("curvature sum", sum1) ELSE {}
             IN  IF RSub(zl, s.z_w0) = Zero
                 THEN [none EXCEPT !.bound = TRUE, !.z_eff = RRecip(sum2),
                          !.zerodiv = logged \cup zd1
                                      \cup ZeroDen("curvature sum", sum2),
                          !.case = "spherical outside"]
                 ELSE [none EXCEPT !.bound = TRUE, !.z_eff = RRecip(sum3),
                          !.zerodiv = logged \cup zd1
                                      \cup ZeroDen("curvature sum", sum3),
                          !.case = "spherical outside"]
        ELSE IF s.spherical /\ RLt(dist, z_R(s))
        THEN LET sum == RSub(ifl, RRecip(R_input_beam))
             IN  [none EXCEPT !.bound = TRUE, !.z_eff = RRecip(sum),
                              !.spherical = FALSE,
                              !.zerodiv = ZeroDen("R_input_beam", R_input_beam)
                                          \cup ZeroDen("curvature sum", sum),
                              !.case = "spherical inside"]
        ELSE none

\* apply_optic, lines 614-703: what follows the oversample assertion
lens_interaction(s, optic, zl, ignore_wavefront) ==
    LET new_waist_sq == spot_radius_sq(s, zl)
        far          == RGt(RAbs(RSub(s.z_w0, s.z)),
                            RMul(Rat(rayl_factor), z_R(s)))
        R_input_beam == IF far THEN RSub(s.z, s.z_w0) ELSE Inf
        atfocus      == s.planetype \in {_PUPIL, _IMAGE}
        den          == RSub(RRecip(R_c(s, zl)), RRecip(optic.fl))
        r_curve      == IF atfocus THEN RNeg(optic.fl) ELSE RRecip(den)
        flat         == R_c(s, zl) = optic.fl
        s1 == [s EXCEPT
                 !.spherical = IF far THEN TRUE ELSE @,
                 !.zerodiv = IF atfocus THEN {} ELSE ZeroDen("r_curve", den),
                 !.z_w0 = IF flat THEN zl
                          ELSE RAdd(RDiv(RNeg(r_curve),
                                     RAdd(One, RSq(RDiv(r_curve, new_waist_sq)))),
                                    zl),
                 !.w_0sq = IF flat THEN new_waist_sq
                           ELSE RDiv(new_waist_sq,
                                     RAdd(One, RSq(RDiv(new_waist_sq, r_curve))))]
        c  == z_eff_case(s1, optic, zl, R_input_beam)
    IN  IF ~s.force_fresnel /\ atfocus
           /\ optic.planetype \in {_IMAGE, _PUPIL}
        THEN propagateTo(s1, optic)
        ELSE IF ignore_wavefront
        THEN s1
        ELSE IF ~c.bound
        THEN [s1 EXCEPT !.raised = "UnboundLocalError"]
        ELSE LET s2 == [s1 EXCEPT !.spherical = c.spherical,
                                  !.zerodiv = @ \cup c.zerodiv]
                 s3 == MulQuadPhase(s2, RNeg(c.z_eff))
             IN  [s3 EXCEPT !.waists_z = Append(@, s3.z_w0),
                            !.waists_w0 = Append(@, s3.w_0sq),
                            !.planetype = optic.planetype]

\* apply_optic without the oversample assertion
apply_optic_noassert(s, optic, zl, ignore_wavefront) ==
    lens_interaction(s, optic, zl, ignore_wavefront)

\* apply_optic that keeps only the newest waist in the waist history
apply_optic_newest_waist(s, optic, zl, ignore_wavefront) ==
    IF s.oversample # optic.oversample
    THEN [s EXCEPT !.raised = "AssertionError"]
    ELSE LET r == lens_interaction(s, optic, zl, ignore_wavefront)
         IN  IF Len(r.waists_z) > Len(s.waists_z)
             THEN [r EXCEPT !.waists_z = <<r.z_w0>>,
                            !.waists_w0 = <<r.w_0sq>>]
             ELSE r

\* apply_optic(optic, z_lens, ignore_wavefront)
apply_optic(s, optic, zl, ignore_wavefront) ==
    IF s.oversample # optic.oversample
    THEN [s EXCEPT !.raised = "AssertionError"]
    ELSE lens_interaction(s, optic, zl, ignore_wavefront)

\* ------------------------------------------------------------------- inputs
\* default oversample of Wavefront and of GaussianLens
DefaultOversample == 2
\* beam_radius ** 2 given to the constructor
BeamRadiiSq == {2, 4}
\* the grids: npix samples per axis padded by the oversample factor, so that
\* the field has n = npix * oversample samples per axis (one even, one odd)
Grids == {[npix |-> 1, oversample |-> DefaultOversample],
          [npix |-> 3, oversample |-> 1]}
\* pixel scale the base class gives the pupil plane
PixelScales == {<<1, 1>>}
\* distances handed to propagate_fresnel and to the kernels
Deltas == {-4, -1, 0, 1, 2}
\* positions of the lenses
LensPositions == {-4, -1}
\* the lenses handed to a wavefront of oversample os; the last one does not
\* share the wavefront's oversample
Optics(os) ==
    {Optic(Rat(-5), _INTERMED, os),
     Optic(Rat(5), _INTERMED, os),
     Optic(Rat(5), _IMAGE, os),
     Optic(Rat(5), _INTERMED, os + 1)}
NoOptic == Optic(Zero, "none", 0)

Small(a) == RAbsInt(a[1]) <= MaxMagnitude /\ a[2] <= MaxMagnitude

\* ------------------------------------------------------------------ actions
\* Wavefront.__init__
Init ==
    /\ z = Zero
    /\ z_w0 = Zero
    /\ w_0sq \in {Rat(b) : b \in BeamRadiiSq}
    /\ spherical = FALSE
    /\ pixelscale \in PixelScales
    /\ wavefront = <<>>
    /\ \E g \in Grids : oversample = g.oversample /\ n = g.npix * g.oversample
    /\ history = IF oversample > 1
                 THEN <<Entry("Padded WF array for oversampling", Rat(oversample))>>
                 ELSE <<>>
    /\ waists_z = <<z_w0>>
    /\ waists_w0 = <<w_0sq>>
    /\ planetype = _PUPIL
    /\ force_fresnel \in BOOLEAN
    /\ op = [name |-> "__init__", dz |-> Zero, optic |-> NoOptic,
             z_lens |-> Zero, ignore_wavefront |-> FALSE]
    /\ invoked = <<>>
    /\ zerodiv = {}
    /\ raised = "none"
    /\ before = Self
    /\ calls = 0

\* The wavefront after a call that left it as s
Becomes(s) ==
    /\ z' = s.z
    /\ z_w0' = s.z_w0
    /\ w_0sq' = s.w_0sq
    /\ spherical' = s.spherical
    /\ pixelscale' = s.pixelscale
    /\ wavefront' = s.wavefront
    /\ history' = s.history
    /\ waists_z' = s.waists_z
    /\ waists_w0' = s.waists_w0
    /\ planetype' = s.planetype
    /\ invoked' = s.invoked
    /\ zerodiv' = s.zerodiv
    /\ raised' = s.raised
    /\ before' = Self
    /\ calls' = calls + 1
    /\ UNCHANGED <<n, oversample, force_fresnel>>

KernelCall(name, dz) ==
    [name |-> name, dz |-> dz, optic |-> NoOptic, z_lens |-> Zero,
     ignore_wavefront |-> FALSE]

Ptp ==
    /\ calls < MaxCalls
    /\ \E d \in Deltas :
          /\ \E r \in {ptp(Self, Rat(d))} : Becomes(r)
          /\ op' = KernelCall("ptp", Rat(d))

Wts ==
    /\ calls < MaxCalls
    /\ \E d \in Deltas :
          /\ \E r \in {wts(Self, Rat(d))} : Becomes(r)
          /\ op' = KernelCall("wts", Rat(d))

Stw ==
    /\ calls < MaxCalls
    /\ \E d \in Deltas :
          /\ \E r \in {stw(Self, Rat(d))} : Becomes(r)
          /\ op' = KernelCall("stw", Rat(d))

PropagateFresnel ==
    /\ calls < MaxCalls
    /\ \E d \in Deltas :
          /\ \E r \in {propagate_fresnel(Self, Rat(d))} : Becomes(r)
          /\ op' = KernelCall("propagate_fresnel", Rat(d))

ApplyOptic ==
    /\ calls < MaxCalls
    /\ Small(z) /\ Small(z_w0) /\ Small(w_0sq)
    /\ \E o \in Optics(oversample), zl \in LensPositions, ign \in BOOLEAN :
          /\ \E r \in {apply_optic(Self, o, Rat(zl), ign)} : Becomes(r)
          /\ op' = [name |-> "apply_optic", dz |-> Zero, optic |-> o,
                    z_lens |-> Rat(zl), ignore_wavefront |-> ign]

Next == PropagateFresnel \/ ApplyOptic

Spec == Init /\ [][Next]_vars

\* The kernels called directly
NextKernels == Ptp \/ Wts \/ Stw

SpecKernels == Init /\ [][NextKernels]_vars

\* ------------------------------------------------------------------- claims
Last(q) == q[Len(q)]
Names(q) == [i \in 1..Len(q) |-> q[i].name]

\* The dispatch table of propagate_fresnel, read off the wavefront b the
\* call was made on: the kernels and their arguments, in order.
DispatchTable(b, delta_z) ==
    LET target  == RAdd(b.z, delta_z)
        inrange == RLt(RAbs(RSub(b.z_w0, target)), b.w_0sq)
        towaist == RSub(b.z_w0, b.z)
        onward  == RSub(target, b.z_w0)
    IN  IF ~b.spherical /\ inrange THEN <<Call("ptp", delta_z)>>
        ELSE IF ~b.spherical
        THEN <<Call("ptp", towaist), Call("wts", onward)>>
        ELSE IF inrange
        THEN <<Call("stw", towaist), Call("ptp", onward)>>
        ELSE <<Call("stw", towaist), Call("wts", onward)>>

\* C1: every propagate_fresnel(delta_z) call invokes exactly the kernels of
\* its row of the dispatch table, in the row's order and with the row's
\* arguments: planar/in range ptp(delta_z); planar/out of range
\* ptp(z_w0 - z), wts(target - z_w0); spherical/in range stw(z_w0 - z),
\* ptp(target - z_w0); spherical/out of range stw(z_w0 - z),
\* wts(target - z_w0); and nothing else.
C1_DispatchTable ==
    op.name = "propagate_fresnel" => invoked = DispatchTable(before, op.dz)

\* C1 witness: a call made on a spherical wavefront away from its waist for a
\* target out of range: stw over a nonzero distance, then wts.
C1_Witness ==
    /\ op.name = "propagate_fresnel"
    /\ before.spherical
    /\ Names(invoked) = <<"stw", "wts">>
    /\ invoked[1].dz # Zero

\* C2: after propagate_fresnel(delta_z) returns, z is the z before the call
\* plus delta_z, in every row, also when a kernel of the row is a no-op.
C2_FinalZIsTarget ==
    op.name = "propagate_fresnel" => z = RAdd(before.z, op.dz)

\* C3: wts(0) and stw(0) do not raise and leave z, z_w0, w_0, pixelscale, the
\* field and the history as they were.
C3_ZeroDistanceNoOp ==
    (op.name \in {"wts", "stw"} /\ op.dz = Zero) =>
        /\ raised = "none"
        /\ z = before.z
        /\ z_w0 = before.z_w0
        /\ w_0sq = before.w_0sq
        /\ pixelscale = before.pixelscale
        /\ wavefront = before.wavefront
        /\ history = before.history

\* C3 witness: wts(0) called on a wavefront that earlier kernels have moved.
C3_Witness ==
    /\ op.name = "wts"
    /\ op.dz = Zero
    /\ wavefront # <<>>
    /\ z # Zero

\* C4: apply_optic with ignore_wavefront=True only does the beam-parameter
\* bookkeeping, whatever force_fresnel and the plane types are: the field is
\* not mutated and no propagation is performed.
C4_IgnoreWavefrontKeepsField ==
    (op.name = "apply_optic" /\ op.ignore_wavefront) =>
        /\ wavefront = before.wavefront
        /\ invoked = <<>>

\* C5: after any sequence of calls the last entries of waists_z and
\* waists_w0 are the current z_w0 and w_0.
C5_LastWaistIsCurrent ==
    /\ Last(waists_z) = z_w0
    /\ Last(waists_w0) = w_0sq

\* C6: apply_optic with an optic of another oversample fails at once, with
\* z_w0, w_0, the spherical flag, the field, the plane type and the waist
\* history (and z, pixelscale, the history log) as they were before the call.
C6_OversampleMismatchFailsFirst ==
    (op.name = "apply_optic" /\ op.optic.oversample # oversample) =>
        /\ raised = "AssertionError"
        /\ z_w0 = before.z_w0
        /\ w_0sq = before.w_0sq
        /\ spherical = before.spherical
        /\ wavefront = before.wavefront
        /\ planetype = before.planetype
        /\ waists_z = before.waists_z
        /\ waists_w0 = before.waists_w0
        /\ z = before.z
        /\ pixelscale = before.pixelscale
        /\ history = before.history

\* C6 witness: the mismatching call made where the lens would have moved the
\* waist and flagged the wavefront spherical had the call gone on.
C6_Witness ==
    /\ op.name = "apply_optic"
    /\ op.optic.oversample # oversample
    /\ raised = "AssertionError"
    /\ RGt(RAbs(RSub(z_w0, z)), RMul(Rat(rayl_factor), w_0sq))
    /\ ~spherical

WaistKernels == {"stw", "wts"}

\* C7 as stated: for nonzero dz, stw(dz) followed by wts(dz) returns the
\* pixel scale and the field to the values they had before the pair.
C7_SameDistanceRoundTrip ==
    [][(/\ op.name = "stw" /\ op.dz # Zero
        /\ op'.name = "wts" /\ op'.dz = op.dz)
       => (/\ pixelscale' = before.pixelscale
           /\ wavefront' = before.wavefront)]_vars

\* C7 amended: for nonzero dz and any positive pixel scale, one waist kernel
\* followed by the other with a distance of the same size returns the pixel
\* scale to its value before the pair (each maps p to wavelength*|dz|/(n*p));
\* when the second distance is the opposite of the first (stw(dz) then
\* wts(-dz), or wts(dz) then stw(-dz)) the FFT and the quadratic phase of the
\* second kernel undo those of the first, and the field and z return too.
C7_OppositeDistanceRoundTrip ==
    [][(/\ op.name \in WaistKernels /\ op.dz # Zero
        /\ op'.name \in WaistKernels /\ op'.name # op.name
        /\ RAbs(op'.dz) = RAbs(op.dz))
       => (/\ pixelscale' = before.pixelscale
           /\ (op'.dz = RNeg(op.dz) =>
                 /\ wavefront' = before.wavefront
                 /\ z' = before.z))]_vars

\* C7 witness: stw(d) then wts(-d), d # 0, has brought back a pixel scale
\* and a field that the first kernel had changed.
C7_Witness ==
    /\ op.name = "wts"
    /\ op.dz # Zero
    /\ Len(history) >= 2
    /\ Last(history) = Entry("Propagated Waist to Spherical", op.dz)
    /\ history[Len(history) - 1] =
           Entry("Propagated Spherical to Waist", RNeg(op.dz))
    /\ before.pixelscale # pixelscale
    /\ before.wavefront # wavefront
    /\ pixelscale \in PixelScales
    /\ wavefront = <<>>

\* C8: ptp(dz) never changes pixelscale, z_w0, w_0 or the spherical flag; for
\* |dz| of at least one angstrom it advances z by dz and appends one history
\* entry; below one angstrom it changes nothing (z, field, history).
C8_PtpFrame ==
    op.name = "ptp" =>
        /\ pixelscale = before.pixelscale
        /\ z_w0 = before.z_w0
        /\ w_0sq = before.w_0sq
        /\ spherical = before.spherical
        /\ IF RLt(RAbs(op.dz), Rat(Angstrom))
           THEN /\ z = before.z
                /\ wavefront = before.wavefront
                /\ history = before.history
           ELSE /\ z = RAdd(before.z, op.dz)
                /\ Len(history) = Len(before.history) + 1
                /\ SubSeq(history, 1, Len(before.history)) = before.history

\* C8 witness: ptp over exactly one angstrom, from a pixel scale a waist
\* kernel has changed, has moved z and the field.
C8_Witness ==
    /\ op.name = "ptp"
    /\ RAbs(op.dz) = Rat(Angstrom)
    /\ z # before.z
    /\ wavefront # before.wavefront
    /\ pixelscale \notin PixelScales

\* C9: the target of propagate_fresnel counts as in range (the call ends in
\* ptp) exactly when |z_w0 - target| < z_R; a target exactly one Rayleigh
\* range from the waist is out of range (the call ends in wts).
C9_StrictRayleighBoundary ==
    op.name = "propagate_fresnel" =>
        LET target == RAdd(before.z, op.dz)
            dist   == RAbs(RSub(before.z_w0, target))
        IN  /\ (Last(invoked).name = "ptp") <=> RLt(dist, before.w_0sq)
            /\ dist = before.w_0sq => Last(invoked).name = "wts"

\* C9 witness: a target exactly one Rayleigh range from the waist, reached
\* through wts.
C9_Witness ==
    /\ op.name = "propagate_fresnel"
    /\ RAbs(RSub(before.z_w0, RAdd(before.z, op.dz))) = before.w_0sq
    /\ Last(invoked).name = "wts"
    /\ Last(history) = Entry("Propagated Waist to Spherical", Last(invoked).dz)

\* C10: apply_optic with ignore_wavefront false never takes, while it
\* computes z_eff, a reciprocal of a denominator that is exactly zero
\* (z - z_w0, R_input_beam, or the sum of curvatures).
C10_NoZeroDenominator ==
    (op.name = "apply_optic" /\ ~op.ignore_wavefront) =>
        zerodiv \cap {"z - z_w0", "R_input_beam", "curvature sum"} = {}

IsPrefix(p, q) == Len(p) <= Len(q) /\ SubSeq(q, 1, Len(p)) = p

\* C11: the waist history is append-only: waists_z and waists_w0 start as
\* the single entry (0, beam_radius), always have the same length, no call
\* removes or rewrites an entry, only apply_optic adds one, and it adds at
\* most one, at the end.
C11_WaistsAppendOnly ==
    /\ calls = 0 => (waists_z = <<Zero>> /\ waists_w0 = <<w_0sq>>)
    /\ Len(waists_z) = Len(waists_w0)
    /\ IsPrefix(before.waists_z, waists_z)
    /\ IsPrefix(before.waists_w0, waists_w0)
    /\ Len(waists_z) <= Len(before.waists_z) + 1
    /\ op.name # "apply_optic" => Len(waists_z) = Len(before.waists_z)
    /\ waists_z[1] = Zero
    /\ waists_w0[1] \in {Rat(b) : b \in BeamRadiiSq}

\* C11 witness: a second lens has added a third, different entry after the
\* two that were there.
C11_Witness ==
    /\ op.name = "apply_optic"
    /\ Len(before.waists_z) = 2
    /\ Len(waists_z) = 3
    /\ waists_z[3] # waists_z[2]
    /\ waists_z[3] = z_w0
    /\ waists_w0[3] = w_0sq

\* C12: after a propagate_fresnel call the spherical flag follows the last
\* regime-changing kernel: true when the call ended in a nonzero-distance
\* wts, false when it ended in a nonzero-distance stw followed by ptp (the
\* next propagate_fresnel call dispatches on this flag).
C12_SphericalTracksLastKernel ==
    (op.name = "propagate_fresnel" /\ invoked # <<>>) =>
        /\ (Last(invoked).name = "wts" /\ Last(invoked).dz # Zero)
              => spherical
        /\ (/\ Len(invoked) = 2
            /\ invoked[1].name = "stw" /\ invoked[1].dz # Zero
            /\ invoked[2].name = "ptp")
              => ~spherical

\* The Fraunhofer shortcut of apply_optic is taken from wavefront b
Shortcut(b, optic) ==
    /\ ~b.force_fresnel
    /\ b.planetype \in {_PUPIL, _IMAGE}
    /\ optic.planetype \in {_IMAGE, _PUPIL}

\* C13: whenever apply_optic reaches the phase-mask step (matching
\* oversample, ignore_wavefront false, Fraunhofer shortcut not taken) one of
\* the four sub-cases assigns z_eff, also when |z_w0 - z_lens| equals z_R, so
\* the call does not raise, multiplies the field by a phase mask, appends
\* one entry to the waist history and sets the plane type to the optic's.
C13_PhaseMaskStepAlwaysCompletes ==
    (/\ op.name = "apply_optic"
     /\ op.optic.oversample = before.oversample
     /\ ~op.ignore_wavefront
     /\ ~Shortcut(before, op.optic)) =>
        /\ raised = "none"
        /\ wavefront # before.wavefront
        /\ Len(waists_z) = Len(before.waists_z) + 1
        /\ Last(waists_z) = z_w0
        /\ planetype = op.optic.planetype

\* C14: in propagate_fresnel the shift after the kernels undoes the shift
\* before them, on every grid size: a call on a planar wavefront with the
\* target in range and |delta_z| below one angstrom (ptp skips, the field
\* is untouched in between) returns the field it was given, every sample at
\* its original index.
C14_ShiftsCancel ==
    (/\ op.name = "propagate_fresnel"
     /\ ~before.spherical
     /\ planar_range(before, RAdd(before.z, op.dz))
     /\ RLt(RAbs(op.dz), Rat(Angstrom))) =>
        wavefront = before.wavefront

=============================================================================
